---- MODULE Spec2Model ----
(***************************************************************************)
(* asyncio-contextmanager-pool: a reference-counted pool of async context  *)
(* managers (src/asyncio_contextmanager_pool/__init__.py).                 *)
(*                                                                         *)
(* Specifications over one set of variables:                              *)
(*   Spec        the Pool / _Holder state machine under asyncio's          *)
(*               single-threaded cooperative scheduling: every action is   *)
(*               one run of a task between two suspension points; callers  *)
(*               call get, __aenter__ and __aexit__ as separate steps;     *)
(*   ScopedSpec  the same machine with callers that only ever write        *)
(*               `async with pool.get(...)`;                               *)
(*   LiveSpec    Spec with the event loop's fairness;                      *)
(*   SpecArgs    the pure key deriver reduce_args applied to two calls     *)
(*               whose arguments are drawn from bounded sets.              *)
(***************************************************************************)
EXTENDS Integers, Sequences, FiniteSets, TLC

\* ------------------------------------------------------------------ bounds
\* Number of caller tasks using the pool concurrently.
NumCallers == 2
\* Total number of Pool.get calls made by the callers.
MaxGets == 2
\* Number of times Pool.__aexit__ (shutdown) is run.
MaxShutdowns == 1
\* Longest positional-argument list drawn for reduce_args.
MaxPos == 2

Callers == 1 .. NumCallers

\* ------------------------------------------------------- argument values
\* Hashable argument values and named-argument names (Python str objects).
\* "a" is both a possible positional value and a possible argument name.
Vals == {"a", "x"}
Names == {"a", "b"}

\* Code of a one-character str: orders str objects as Python's < does
\* (code point order) and stands for the str's own hash.
StrCode == [s \in Vals \cup Names |-> CASE s = "a" -> 1 [] s = "b" -> 2 [] s = "x" -> 3]

\* The None object.
None == 0

VARIABLES
    instances,      \* Pool._instances: dict key -> _Holder, in insertion order
    timers,         \* Pool._timers: key -> state of the TimerHandle stored there
    holders,        \* every _Holder constructed so far, with its resource
    deleteTasks,    \* per key: tasks created by a timer callback, not yet run
    pc,             \* per caller: where the caller's coroutine is
    ref,            \* per caller: the _Holder returned by its last get
    val,            \* per caller: the value its `async with` bound
    err,            \* per caller: the exception its last call raised
    gets,           \* number of Pool.get calls so far
    sd,             \* the task running Pool.__aexit__
    sdRuns,         \* number of Pool.__aexit__ runs that have returned
    callArgs,       \* SpecArgs: the arguments of two reduce_args calls
    callKey,        \* SpecArgs: the keys the two calls returned (0: not called)
    pickled         \* PickleSpec: the outcome of pickling and unpickling the pool

poolVars == <<instances, timers, holders, deleteTasks, pc, ref, val, err, gets, sd, sdRuns>>
argVars == <<callArgs, callKey>>
vars == <<instances, timers, holders, deleteTasks, pc, ref, val, err, gets, sd, sdRuns,
          callArgs, callKey, pickled>>

\* ------------------------------------------------------------ reduce_args
\* A call's arguments: pos is *args, kw is **kwargs as the sequence of
\* [name, value] items in the order the caller supplied them.
Arg(p, k) == [pos |-> p, kw |-> k]

RECURSIVE sorted(_)
\* sorted(S): the names in S in ascending order.
sorted(S) ==
    IF S = {} THEN <<>>
    ELSE LET m == CHOOSE x \in S : \A y \in S : StrCode[x] <= StrCode[y]
         IN  <<m>> \o sorted(S \ {m})

\* The names in the order the caller supplied them: list(kwargs) in place of
\* sorted(kwargs).
kwargs_keys_unsorted(kw) == [i \in 1 .. Len(kw) |-> kw[i].name]

\* kwargs_keys = sorted(kwargs)
kwargs_keys(kw) == sorted({kw[i].name : i \in 1 .. Len(kw)})

\* kwargs[k]
kwargs_get(kw, k) == (CHOOSE i \in 1 .. Len(kw) : kw[i].name = k)

RECURSIVE append_named(_, _, _)
\* for k in kwargs_keys: hash_values.append(k); hash_values.append(kwargs[k])
append_named(hash_values, keys, kw) ==
    IF keys = <<>> THEN hash_values
    ELSE append_named(hash_values \o <<Head(keys), kw[kwargs_get(kw, Head(keys))].value>>,
                      Tail(keys), kw)

\* hash_values after the loop: [*args] followed by name, value, name, value...
hash_values_of(a) == append_named(a.pos, kwargs_keys(a.kw), a.kw)

RECURSIVE tuple_hash(_, _)
\* hash(tuple(...)): folds the items' hashes in order, with the length; equal
\* tuples hash equal, and on the bounded arguments used here no two different
\* tuples collide (the item codes are below the base 4 and the fold starts at 1).
tuple_hash(acc, t) ==
    IF t = <<>> THEN acc ELSE tuple_hash(acc * 4 + StrCode[Head(t)], Tail(t))

\* reduce_args(*args, **kwargs)
reduce_args(a) == tuple_hash(1, hash_values_of(a))

\* All positional lists up to MaxPos values.
PosLists == UNION {[1 .. n -> Vals] : n \in 0 .. MaxPos}

\* All named-argument dicts over Names, in every supply order.
KwItems == [name : Names, value : Vals]
KwLists ==
    {k \in UNION {[1 .. n -> KwItems] : n \in 0 .. Cardinality(Names)} :
        \A i, j \in 1 .. Len(k) : i # j => k[i].name # k[j].name}

ArgSets == {Arg(p, k) : p \in PosLists, k \in KwLists}

\* The arguments the callers of the pool use: get("a", "x") and get("b").
PoolArgs == <<Arg(<<"a", "x">>, <<>>), Arg(<<"b">>, <<>>)>>

\* The keys those arguments derive.
KeySet == {reduce_args(PoolArgs[i]) : i \in 1 .. Len(PoolArgs)}

\* ------------------------------------------------------------ dict helpers
\* key in self._instances
HasKey(inst, k) == \E i \in 1 .. Len(inst) : inst[i].key = k

\* self._instances[key]
Lookup(inst, k) == inst[CHOOSE i \in 1 .. Len(inst) : inst[i].key = k].h

\* the dict after self._instances.pop(key, None)
PopInstance(inst, k) == SelectSeq(inst, LAMBDA e : e.key # k)

\* self._instances[key] = holder, for a key that is not in the dict
Store(inst, k, h) == Append(inst, [key |-> k, h |-> h])

\* Whether holder h is a value of the dict.
InPool(inst, h) == \E i \in 1 .. Len(inst) : inst[i].h = h

\* list(self._instances)
KeyList(inst) == [i \in 1 .. Len(inst) |-> inst[i].key]

\* Pool.__len__
PoolLen == Len(instances)

\* ------------------------------------------------------------ Pool methods
\* Each method is an operator from the state it reads to the state it leaves
\* (up to its first suspension point); the actions below apply them.

\* A _stop_timer that leaves the handle where it is.
Pool_stop_timer_keep(tm, k) == tm

\* Pool._stop_timer: pop the handle and cancel it (a handle that has already
\* run is only dropped; the task its callback created is not affected).
Pool_stop_timer(tm, k) == [tm EXCEPT ![k] = "none"]

\* A _mark_for_deletion that keeps one timer for the whole pool.
Pool_mark_for_deletion_all(tm, k) == [j \in DOMAIN tm |-> "pending"]

\* Pool._mark_for_deletion(key): the timers after the call.
Pool_mark_for_deletion(tm, k) == [Pool_stop_timer(tm, k) EXCEPT ![k] = "pending"]

\* _Holder.__init__(cache, key, value); the resource getter(*args, **kwargs)
\* is identified by the arguments it was made from.
Holder_init(k, a) ==
    [key |-> k, value |-> a, count |-> 0, called_aenter |-> FALSE,
     managed_value |-> None, enter_called |-> 0, exit_called |-> 0, exiting |-> FALSE]

\* Pool.get without the test `key not in self._instances`: every call makes
\* a holder and stores it under the key.
Pool_get_no_reuse(inst, tm, hs, a) ==
    LET key == reduce_args(PoolArgs[a])
    IN  [instances |-> Store(PopInstance(inst, key), key, Len(hs) + 1),
         timers |-> Pool_stop_timer(tm, key),
         holders |-> Append(hs, Holder_init(key, a)),
         h |-> Len(hs) + 1]

\* A get that calls the factory on every call and hands out the new holder,
\* storing it only when the key is absent.
Pool_get_fresh(inst, tm, hs, a) ==
    LET key == reduce_args(PoolArgs[a])
    IN  [instances |-> IF HasKey(inst, key) THEN inst ELSE Store(inst, key, Len(hs) + 1),
         timers |-> Pool_stop_timer(tm, key),
         holders |-> Append(hs, Holder_init(key, a)),
         h |-> Len(hs) + 1]

\* Pool.get(*args, **kwargs) with the arguments PoolArgs[a]; h is the holder
\* returned.
Pool_get(inst, tm, hs, a) ==
    LET key == reduce_args(PoolArgs[a])
        new == ~HasKey(inst, key)
        inst1 == IF new THEN Store(inst, key, Len(hs) + 1) ELSE inst
    IN  [instances |-> inst1,
         timers |-> Pool_stop_timer(tm, key),
         holders |-> IF new THEN Append(hs, Holder_init(key, a)) ELSE hs,
         h |-> Lookup(inst1, key)]

\* _Holder.__aenter__ with `self._called_aenter = True` moved after the await
\* of line 63: the flag is still false while the resource is being entered.
Holder_aenter_late_flag(hs, h) ==
    IF hs[h].managed_value = None
    THEN [holders |-> [hs EXCEPT ![h].count = @ + 1, ![h].enter_called = @ + 1],
          to |-> "entering"]
    ELSE [holders |-> [hs EXCEPT ![h].count = @ + 1], to |-> "in"]

\* _Holder.__aenter__ on holder h up to its first suspension point or its
\* end; `to` says where the caller is afterwards: "entering" (suspended in
\* the resource's __aenter__, line 63), "in" (returned _managed_value) or
\* "NotPossible" (raised RuntimeError, line 66).
Holder_aenter(hs, h) ==
    IF ~hs[h].called_aenter
    THEN [holders |-> [hs EXCEPT ![h].count = @ + 1,
                                 ![h].called_aenter = TRUE,
                                 ![h].enter_called = @ + 1],
          to |-> "entering"]
    ELSE [holders |-> [hs EXCEPT ![h].count = @ + 1],
          to |-> IF hs[h].managed_value = None THEN "NotPossible" ELSE "in"]

\* What the resource's own __aenter__ may do: return a value, return None, raise.
EntryOutcomes == {"value", "None", "raise"}

\* Lines 63-68 of _Holder.__aenter__ once the resource's __aenter__ has
\* ended with `outcome`.  The value a resource returns is identified by its
\* holder's number.
Holder_aenter_resume(hs, h, outcome) ==
    CASE outcome = "value" -> [holders |-> [hs EXCEPT ![h].managed_value = h], to |-> "in"]
      [] outcome = "None" -> [holders |-> hs, to |-> "NotPossible"]
      [] outcome = "raise" -> [holders |-> hs, to |-> "EntryError"]

\* _Holder.__aexit__ with the two tests merged into `if self._count <= 0`:
\* it never raises and notifies the pool at zero and below.
Holder_aexit_unchecked(hs, tm, h) ==
    LET n == hs[h].count - 1
    IN  [holders |-> [hs EXCEPT ![h].count = n],
         timers |-> IF n <= 0 THEN Pool_mark_for_deletion(tm, hs[h].key) ELSE tm,
         raised |-> FALSE]

\* _Holder.__aexit__ on holder h; raised says whether it raised
\* RuntimeError("__aexit__ called too many times").
Holder_aexit(hs, tm, h) ==
    LET n == hs[h].count - 1
    IN  [holders |-> [hs EXCEPT ![h].count = n],
         timers |-> IF n = 0 THEN Pool_mark_for_deletion(tm, hs[h].key) ELSE tm,
         raised |-> n < 0]

\* _Holder.close() that returns without calling the resource's __aexit__.
Holder_close_noop(hs, h) == hs

\* _Holder.close() is entered: the resource's __aexit__ is invoked and awaited.
Holder_close(hs, h) == [hs EXCEPT ![h].exit_called = @ + 1, ![h].exiting = TRUE]

\* Pool._delete with self._instances.get(key) in place of pop: the holder
\* stays in the dict.
Pool_delete_keep(tm, inst, hs, k) ==
    [timers |-> Pool_stop_timer(tm, k),
     instances |-> inst,
     holders |-> IF HasKey(inst, k) THEN Holder_close(hs, Lookup(inst, k)) ELSE hs,
     h |-> IF HasKey(inst, k) THEN Lookup(inst, k) ELSE None]

\* Pool._delete(key) up to its suspension point; h is the holder being
\* closed, None when the key was not in the dict.
Pool_delete(tm, inst, hs, k) ==
    [timers |-> Pool_stop_timer(tm, k),
     instances |-> PopInstance(inst, k),
     holders |-> IF HasKey(inst, k) THEN Holder_close(hs, Lookup(inst, k)) ELSE hs,
     h |-> IF HasKey(inst, k) THEN Lookup(inst, k) ELSE None]

RECURSIVE Pool_aexit(_, _, _, _)
\* Pool.__aexit__'s loop `for k in keys: await self._delete(k)`, run until a
\* close() suspends (h is the holder being closed) or the keys are exhausted
\* (h is None).  A key whose holder is gone costs no suspension: the loop
\* goes on to the next key.
Pool_aexit(keys, tm, inst, hs) ==
    IF keys = <<>>
    THEN [timers |-> tm, instances |-> inst, holders |-> hs, keys |-> <<>>, h |-> None]
    ELSE LET d == Pool_delete(tm, inst, hs, Head(keys))
         IN  IF d.h # None
             THEN [timers |-> d.timers, instances |-> d.instances, holders |-> d.holders,
                   keys |-> Tail(keys), h |-> d.h]
             ELSE Pool_aexit(Tail(keys), d.timers, d.instances, d.holders)

\* ------------------------------------------------------------------- Init
\* The pool has not been pickled.
NotPickled == [done |-> FALSE, raised |-> FALSE, attrs |-> <<>>]

NoCall == Arg(<<>>, <<>>)

Init ==
    /\ instances = <<>>
    /\ timers = [k \in KeySet |-> "none"]
    /\ holders = <<>>
    /\ deleteTasks = [k \in KeySet |-> 0]
    /\ pc = [c \in Callers |-> "idle"]
    /\ ref = [c \in Callers |-> None]
    /\ val = [c \in Callers |-> None]
    /\ err = [c \in Callers |-> "none"]
    /\ gets = 0
    /\ sd = [pc |-> "idle", keys |-> <<>>, h |-> None]
    /\ sdRuns = 0
    /\ callArgs = <<NoCall, NoCall>>
    /\ callKey = <<0, 0>>
    /\ pickled = NotPickled

\* ---------------------------------------------------------------- pickling
\* Pool.__slots__.
Slots == <<"_getter", "_key", "_instances", "_timers", "_ttl", "_pickleable">>

\* The slots Pool.__init__ assigns.
InitSlots == {"_getter", "_key", "_instances", "_timers", "_ttl"}

\* The value of an assigned slot of the pool.
Pool_attr(slot, inst, tm) ==
    CASE slot = "_getter" -> "getter"
      [] slot = "_key" -> "reduce_args"
      [] slot = "_ttl" -> "ttl"
      [] slot = "_instances" -> inst
      [] slot = "_timers" -> tm
      [] OTHER -> None

\* Pool.__getstate__ of a pool whose assigned slots are `assigned`:
\* getattr of every slot (AttributeError on a slot never assigned), then
\* _instances and _timers replaced by empty dicts.
Pool_getstate(assigned, inst, tm) ==
    IF \E i \in 1 .. Len(Slots) : Slots[i] \notin assigned
    THEN [raised |-> TRUE, state |-> <<>>]
    ELSE [raised |-> FALSE,
          state |-> [s \in {Slots[i] : i \in 1 .. Len(Slots)} |->
                        IF s = "_instances" THEN <<>>
                        ELSE IF s = "_timers" THEN [k \in KeySet |-> "none"]
                        ELSE Pool_attr(s, inst, tm)]]

\* Pool.__setstate__(state) on a new object: the attributes it ends up with.
Pool_setstate(state) == [s \in DOMAIN state |-> state[s]]

\* pickle.loads(pickle.dumps(pool)): __getstate__ on the pool, __setstate__
\* on the copy.
Pickle ==
    /\ ~pickled.done
    /\ LET g == Pool_getstate(InitSlots, instances, timers)
       IN pickled' = [done |-> TRUE, raised |-> g.raised,
                      attrs |-> IF g.raised THEN <<>> ELSE Pool_setstate(g.state)]
    /\ UNCHANGED <<instances, timers, holders, deleteTasks, pc, ref, val, err, gets, sd,
                   sdRuns, callArgs, callKey>>

\* ---------------------------------------------------------------- callers
\* Caller c after an __aenter__ on holder h that went `to`.
Entered(c, h, hs, to) ==
    /\ holders' = hs
    /\ pc' = [pc EXCEPT ![c] = IF to \in {"entering", "in"} THEN to ELSE "idle"]
    /\ ref' = [ref EXCEPT ![c] = IF to \in {"entering", "in"} THEN h ELSE None]
    /\ val' = [val EXCEPT ![c] = IF to = "in" THEN hs[h].managed_value ELSE None]
    /\ err' = [err EXCEPT ![c] = IF to \in {"entering", "in"} THEN "none" ELSE to]

\* Caller c calls pool.get with PoolArgs[a] and keeps the holder.
CallGet(c, a) ==
    LET g == Pool_get(instances, timers, holders, a)
    IN  /\ pc[c] = "idle"
        /\ gets < MaxGets
        /\ gets' = gets + 1
        /\ instances' = g.instances
        /\ timers' = g.timers
        /\ holders' = g.holders
        /\ pc' = [pc EXCEPT ![c] = "got"]
        /\ ref' = [ref EXCEPT ![c] = g.h]
        /\ err' = [err EXCEPT ![c] = "none"]
        /\ UNCHANGED <<deleteTasks, val, sd, sdRuns, callArgs, callKey, pickled>>

\* Caller c enters `async with` on the holder it keeps.
CallAenter(c) ==
    LET r == Holder_aenter(holders, ref[c])
    IN  /\ pc[c] = "got"
        /\ Entered(c, ref[c], r.holders, r.to)
        /\ UNCHANGED <<instances, timers, deleteTasks, gets, sd, sdRuns, callArgs, callKey, pickled>>

\* Caller c runs `async with pool.get(...)`: get and __aenter__ with no
\* suspension point between them.
AsyncWithGet(c, a) ==
    LET g == Pool_get(instances, timers, holders, a)
        r == Holder_aenter(g.holders, g.h)
    IN  /\ pc[c] = "idle"
        /\ gets < MaxGets
        /\ gets' = gets + 1
        /\ instances' = g.instances
        /\ timers' = g.timers
        /\ Entered(c, g.h, r.holders, r.to)
        /\ UNCHANGED <<deleteTasks, sd, sdRuns, callArgs, callKey, pickled>>

\* The resource's __aenter__ ends and the suspended __aenter__ of caller c
\* goes on.
AenterResume(c, outcome) ==
    LET r == Holder_aenter_resume(holders, ref[c], outcome)
    IN  /\ pc[c] = "entering"
        /\ Entered(c, ref[c], r.holders, r.to)
        /\ UNCHANGED <<instances, timers, deleteTasks, gets, sd, sdRuns, callArgs, callKey, pickled>>

\* Caller c calls __aexit__ on the holder it refers to.
CallAexit(c) ==
    LET r == Holder_aexit(holders, timers, ref[c])
    IN  /\ holders' = r.holders
        /\ timers' = r.timers
        /\ err' = [err EXCEPT ![c] = IF r.raised THEN "TooManyExits" ELSE "none"]
        /\ pc' = [pc EXCEPT ![c] = "idle"]
        /\ ref' = [ref EXCEPT ![c] = None]
        /\ val' = [val EXCEPT ![c] = None]
        /\ UNCHANGED <<instances, deleteTasks, gets, sd, sdRuns, callArgs, callKey, pickled>>

\* The `async with` block of caller c ends: the matching release.
Release(c) ==
    /\ pc[c] = "in"
    /\ CallAexit(c)

\* Caller c calls __aexit__ on a holder it has not acquired, while no
\* acquisition of that holder is outstanding: a release beyond the
\* acquisition count.
ExtraRelease(c) ==
    /\ pc[c] = "got"
    /\ holders[ref[c]].count <= 0
    /\ CallAexit(c)

\* ------------------------------------------------------------ timer, _delete
\* The event loop runs the callback of the handle stored for key k: the TTL
\* has elapsed.  The callback only creates the task self._delete(key); the
\* handle stays in _timers until some _stop_timer pops it.
TimerFire(k) ==
    /\ timers[k] = "pending"
    /\ timers' = [timers EXCEPT ![k] = "fired"]
    /\ deleteTasks' = [deleteTasks EXCEPT ![k] = @ + 1]
    /\ UNCHANGED <<instances, holders, pc, ref, val, err, gets, sd, sdRuns, callArgs, callKey, pickled>>

\* A task created by a timer callback runs Pool._delete(k).
DeleteTask(k) ==
    LET d == Pool_delete(timers, instances, holders, k)
    IN  /\ deleteTasks[k] > 0
        /\ deleteTasks' = [deleteTasks EXCEPT ![k] = @ - 1]
        /\ timers' = d.timers
        /\ instances' = d.instances
        /\ holders' = d.holders
        /\ UNCHANGED <<pc, ref, val, err, gets, sd, sdRuns, callArgs, callKey, pickled>>

\* The resource's __aexit__ returns to a _delete task created by a timer; the
\* task ends.
ExitReturn(h) ==
    /\ holders[h].exiting
    /\ sd.h # h
    /\ holders' = [holders EXCEPT ![h].exiting = FALSE]
    /\ UNCHANGED <<instances, timers, deleteTasks, pc, ref, val, err, gets, sd, sdRuns,
                   callArgs, callKey, pickled>>

\* ----------------------------------------------------------------- shutdown
\* One run of the task executing Pool.__aexit__ over the keys still to delete.
ShutdownRun(keys, hs) ==
    LET r == Pool_aexit(keys, timers, instances, hs)
    IN  /\ timers' = r.timers
        /\ instances' = r.instances
        /\ holders' = r.holders
        /\ IF r.h = None
           THEN /\ sd' = [pc |-> "idle", keys |-> <<>>, h |-> None]
                /\ sdRuns' = sdRuns + 1
           ELSE /\ sd' = [pc |-> "closing", keys |-> r.keys, h |-> r.h]
                /\ UNCHANGED sdRuns
        /\ UNCHANGED <<deleteTasks, pc, ref, val, err, gets, callArgs, callKey, pickled>>

\* Pool.__aexit__ is called: the keys are snapshotted and deleted in order.
ShutdownStart ==
    /\ sd.pc = "idle"
    /\ sdRuns < MaxShutdowns
    /\ ShutdownRun(KeyList(instances), holders)

\* The resource's __aexit__ returns to the shutdown task, which goes on with
\* the remaining keys.
ShutdownResume ==
    /\ sd.pc = "closing"
    /\ ShutdownRun(sd.keys, [holders EXCEPT ![sd.h].exiting = FALSE])

\* ------------------------------------------------------------------- Spec
\* Steps of the event loop and of the pool's own tasks.
LoopStep ==
    \/ \E c \in Callers, o \in EntryOutcomes : AenterResume(c, o)
    \/ \E c \in Callers : Release(c)
    \/ \E k \in KeySet : TimerFire(k)
    \/ \E k \in KeySet : DeleteTask(k)
    \/ \E h \in 1 .. Len(holders) : ExitReturn(h)
    \/ ShutdownStart
    \/ ShutdownResume

Next ==
    \/ \E c \in Callers, a \in 1 .. Len(PoolArgs) : CallGet(c, a)
    \/ \E c \in Callers : CallAenter(c)
    \/ \E c \in Callers : ExtraRelease(c)
    \/ LoopStep

Spec == Init /\ [][Next]_vars

NextScoped ==
    \/ \E c \in Callers, a \in 1 .. Len(PoolArgs) : AsyncWithGet(c, a)
    \/ LoopStep

ScopedSpec == Init /\ [][NextScoped]_vars

\* The event loop runs every due timer callback and every ready task.
Fairness ==
    /\ \A k \in KeySet : WF_vars(TimerFire(k))
    /\ \A k \in KeySet : WF_vars(DeleteTask(k))

LiveSpec == Init /\ [][Next]_vars /\ Fairness

\* Callers that only use `async with pool.get(...)`, with the event loop
\* running every timer callback and task that is due.
ScopedLiveSpec == Init /\ [][NextScoped]_vars /\ Fairness

\* The pool in use, pickled at any moment.
NextPickle ==
    \/ Next
    \/ Pickle

PickleSpec == Init /\ [][NextPickle]_vars

\* --------------------------------------------------------------- SpecArgs
InitArgs ==
    /\ instances = <<>>
    /\ timers = [k \in KeySet |-> "none"]
    /\ holders = <<>>
    /\ deleteTasks = [k \in KeySet |-> 0]
    /\ pc = [c \in Callers |-> "idle"]
    /\ ref = [c \in Callers |-> None]
    /\ val = [c \in Callers |-> None]
    /\ err = [c \in Callers |-> "none"]
    /\ gets = 0
    /\ sd = [pc |-> "idle", keys |-> <<>>, h |-> None]
    /\ sdRuns = 0
    /\ callArgs \in [1 .. 2 -> ArgSets]
    /\ callKey = <<0, 0>>
    /\ pickled = NotPickled

\* Call i evaluates reduce_args on its arguments.
Derive(i) ==
    /\ callKey[i] = 0
    /\ callKey' = [callKey EXCEPT ![i] = reduce_args(callArgs[i])]
    /\ UNCHANGED <<instances, timers, holders, deleteTasks, pc, ref, val, err, gets, sd,
                   sdRuns, callArgs, pickled>>

NextArgs == \E i \in 1 .. 2 : Derive(i)

SpecArgs == InitArgs /\ [][NextArgs]_vars

\* ----------------------------------------------------------------- claims
\* Caller c is between acquire and release on holder h.
Using(c, h) == ref[c] = h /\ pc[c] \in {"entering", "in"}

\* The step is a run of a timer-created _delete task for key k that closes
\* the holder stored under k.
TtlCloses(k) == deleteTasks'[k] < deleteTasks[k] /\ HasKey(instances, k)

\* C1: on the TTL eviction path a holder's resource is closed only when the
\* holder's reference count is zero and no caller is between acquire and
\* release on it.
C1_TtlCloseOnlyWhenUnused ==
    [][\A k \in KeySet :
          TtlCloses(k) =>
              LET h == Lookup(instances, k)
              IN  /\ holders[h].count = 0
                  /\ \A c \in Callers : ~Using(c, h)]_vars

\* The step is a call of Pool.get by caller c (Spec: get is a step of its own).
GetStep(c) == pc[c] = "idle" /\ pc'[c] = "got"

\* The key the get of this step derived.
GetKey(c) == holders'[ref'[c]].key

\* C2: a get for a key whose holder is still in the instance mapping returns
\* that holder, does not call the factory, and leaves the resource's entry
\* and exit counts alone: no exit, and exactly one entry once acquired.
C2_GetReusesLiveHolder ==
    [][\A c \in Callers :
          (GetStep(c) /\ HasKey(instances, GetKey(c))) =>
              LET h == Lookup(instances, GetKey(c))
              IN  /\ ref'[c] = h
                  /\ Len(holders') = Len(holders)
                  /\ instances' = instances
                  /\ holders'[h].enter_called = holders[h].enter_called
                  /\ holders[h].called_aenter => holders'[h].enter_called = 1
                  /\ holders[h].exit_called = 0
                  /\ holders'[h].exit_called = 0]_vars

\* A second get, inside the TTL window of a release-to-zero, has returned the
\* one holder made so far, entered once and not exited.
C2_Witness ==
    \E c \in Callers :
        /\ pc[c] = "got"
        /\ gets = 2
        /\ Len(holders) = 1
        /\ ref[c] = 1
        /\ holders[1].count = 0
        /\ holders[1].enter_called = 1
        /\ holders[1].exit_called = 0

\* The step is an __aenter__ of caller c on the holder it keeps.
AcquireStep(c) ==
    /\ pc[c] = "got"
    /\ pc'[c] # "got"
    /\ holders'[ref[c]].count = holders[ref[c]].count + 1

\* The first acquisition of holder h has begun and has not failed: its value
\* is cached, or the resource's entry routine is still running.
FirstAcquisitionAlive(h) ==
    /\ holders[h].called_aenter
    /\ \/ holders[h].managed_value # None
       \/ \E d \in Callers : pc[d] = "entering" /\ ref[d] = h

\* C3: every acquisition of a holder after its first acquisition has begun
\* returns the cached value of the first and does not fail, also while the
\* first is still suspended in the resource's entry routine.
C3_LaterAcquisitionsReturnCached ==
    [][\A c \in Callers :
          (AcquireStep(c) /\ FirstAcquisitionAlive(ref[c])) =>
              /\ err'[c] = "none"
              /\ pc'[c] = "in"
              /\ val'[c] = holders'[ref[c]].managed_value
              /\ val'[c] # None]_vars

\* C4: the resource's entry routine is invoked at most once per holder, and
\* exactly once as soon as the holder has been acquired; the entered-flag
\* never goes back from true to false.
C4_EntryInvokedOnce ==
    [][\A h \in 1 .. Len(holders) :
          /\ holders'[h].enter_called <= 1
          /\ holders'[h].count > holders[h].count => holders'[h].enter_called = 1
          /\ holders'[h].called_aenter <=> holders'[h].enter_called = 1
          /\ holders[h].called_aenter => holders'[h].called_aenter]_vars

\* Two callers hold the same holder at once and its resource was entered once.
C4_Witness ==
    \E h \in 1 .. Len(holders) :
        /\ holders[h].count = 2
        /\ holders[h].enter_called = 1
        /\ \A c \in Callers : pc[c] = "in" /\ ref[c] = h

\* C5: the resource's exit routine is invoked at most once per holder,
\* whatever TTL deletions, timer firings and shutdowns happen.
C5_ExitAtMostOnce == \A h \in 1 .. Len(holders) : holders[h].exit_called <= 1

\* A shutdown is closing a holder, released to zero before, while the TTL
\* deletion task its timer created for the same key is still waiting to run.
C5_Witness ==
    \E h \in 1 .. Len(holders) :
        /\ sd.pc = "closing"
        /\ sd.h = h
        /\ holders[h].exit_called = 1
        /\ holders[h].enter_called = 1
        /\ holders[h].count = 0
        /\ deleteTasks[holders[h].key] = 1

\* The holder numbers that can exist.
HolderIds == 1 .. MaxGets

\* Holder h was released to zero and its eviction timer is pending.
Idle(h) ==
    /\ h <= Len(holders)
    /\ holders[h].count = 0
    /\ timers[holders[h].key] = "pending"

\* Holder h is out of the instance mapping and its resource was exited once.
Evicted(h) ==
    /\ h <= Len(holders)
    /\ ~InPool(instances, h)
    /\ holders[h].exit_called = 1

\* Holder h is in the mapping with the timer of its key stopped: only a get
\* for its key leaves this behind an idle holder.
Reused(h) ==
    /\ h <= Len(holders)
    /\ InPool(instances, h)
    /\ timers[holders[h].key] = "none"

\* C6: a holder released to zero is eventually removed and its resource
\* exited exactly once, unless a get for its key comes first; and a get for
\* a key that is not in the mapping calls the factory and returns a new
\* holder with a fresh resource.
C6_IdleHolderEvicted ==
    /\ \A h \in HolderIds : Idle(h) ~> (Evicted(h) \/ Reused(h))
    /\ [][\A c \in Callers :
             (GetStep(c) /\ ~HasKey(instances, GetKey(c))) =>
                 /\ Len(holders') = Len(holders) + 1
                 /\ ref'[c] = Len(holders')
                 /\ holders'[ref'[c]].enter_called = 0
                 /\ holders'[ref'[c]].exit_called = 0
                 /\ InPool(instances', ref'[c])]_vars

\* A holder was evicted by its timer and a later get for the same key has
\* stored a new holder.
C6_Witness ==
    /\ sdRuns = 0
    /\ sd.pc = "idle"
    /\ Len(holders) = 2
    /\ holders[1].key = holders[2].key
    /\ Evicted(1)
    /\ InPool(instances, 2)

\* C7: when Pool.__aexit__ returns the instance mapping is empty, no timer
\* is left, and every holder the pool created has had its resource exited
\* exactly once.
C7_ShutdownClosesAll ==
    [][sdRuns' = sdRuns + 1 =>
          /\ instances' = <<>>
          /\ \A k \in KeySet : timers'[k] = "none"
          /\ \A h \in 1 .. Len(holders') : holders'[h].exit_called = 1]_vars

\* The two calls were made with different argument sets: another positional
\* list, or another name -> value mapping.
KwMap(a) == {a.kw[i] : i \in 1 .. Len(a.kw)}
SameArguments(a, b) == a.pos = b.pos /\ KwMap(a) = KwMap(b)
BothDerived == callKey[1] # 0 /\ callKey[2] # 0

\* C8: distinct argument sets derive distinct keys.
C8_DistinctArgsDistinctKeys ==
    (BothDerived /\ ~SameArguments(callArgs[1], callArgs[2])) => callKey[1] # callKey[2]

\* C9: two calls with the same positional arguments and the same name/value
\* pairs, supplied in any order, derive equal keys.
C9_KeyIgnoresNamedOrder ==
    (BothDerived /\ SameArguments(callArgs[1], callArgs[2])) => callKey[1] = callKey[2]

\* Both keys are derived for calls that differ only in the order of their
\* named arguments.
C9_Witness ==
    /\ BothDerived
    /\ SameArguments(callArgs[1], callArgs[2])
    /\ Len(callArgs[1].kw) = 2
    /\ callArgs[1].kw # callArgs[2].kw
    /\ callArgs[1].pos # <<>>

\* The step is an __aexit__ of caller c on the holder it refers to.
ReleaseStep(c) ==
    /\ pc[c] \in {"got", "in"}
    /\ pc'[c] = "idle"
    /\ holders'[ref[c]].count = holders[ref[c]].count - 1

\* C10: a release of a holder with no acquisition outstanding raises
\* RuntimeError and does not notify the pool: no timer is scheduled.
C10_OverReleaseRaises ==
    [][\A c \in Callers :
          (ReleaseStep(c) /\ holders[ref[c]].count <= 0) =>
              /\ err'[c] = "TooManyExits"
              /\ timers' = timers]_vars

\* A release beyond the acquisition count has raised and left no timer.
C10_Witness ==
    \E c \in Callers, h \in 1 .. Len(holders) :
        /\ err[c] = "TooManyExits"
        /\ holders[h].count = -1
        /\ holders[h].enter_called = 0
        /\ timers[holders[h].key] = "none"
        /\ InPool(instances, h)

\* C11: every holder in the instance mapping has reference count >= 0, also
\* after a release that raised the too-many-releases error.
C11_CountNonNegative ==
    \A h \in 1 .. Len(holders) : InPool(instances, h) => holders[h].count >= 0

\* Holder h, just returned to caller c by a get, is idle with the timer of
\* its key stopped: it was entered, its count is zero, nobody is using it
\* and no deletion task is waiting for its key.
Reprieved(c, h) ==
    /\ pc[c] = "got"
    /\ ref[c] = h
    /\ InPool(instances, h)
    /\ holders[h].count = 0
    /\ holders[h].managed_value # None
    /\ timers[holders[h].key] = "none"
    /\ deleteTasks[holders[h].key] = 0
    /\ \A d \in Callers : ~Using(d, h)

\* Holder h is in the instance mapping before the step.
Pooled(h) == h <= Len(holders) /\ InPool(instances, h)

ReprievedOnlyByGet ==
    [][\A h \in HolderIds :
          (/\ h <= Len(holders')
           /\ \E c \in Callers : Reprieved(c, h)'
           /\ ~(h <= Len(holders) /\ \E c \in Callers : Reprieved(c, h))) =>
              \E d \in Callers :
                  GetStep(d) /\ ref'[d] = h /\ timers[holders'[h].key] = "pending"]_vars

\* Everything the pool keeps for key k: the holder stored under it, its
\* timer, its waiting deletion tasks, and every holder made for it.
KeyState(k) ==
    << IF HasKey(instances, k) THEN Lookup(instances, k) ELSE 0,
       timers[k],
       deleteTasks[k],
       [h \in {i \in 1 .. Len(holders) : holders[i].key = k} |-> holders[h]] >>

\* The step is a get, acquire, release, timer expiry or TTL deletion for key k.
StepOn(k) ==
    /\ UNCHANGED <<sd, sdRuns>>
    /\ \/ \E c \in Callers :
             /\ pc'[c] # pc[c]
             /\ k = IF pc[c] = "idle" THEN holders'[ref'[c]].key
                                      ELSE holders[ref[c]].key
       \/ timers[k] = "pending" /\ timers'[k] = "fired"
       \/ deleteTasks'[k] < deleteTasks[k]
       \/ \E h \in 1 .. Len(holders) :
             holders[h].key = k /\ holders[h].exiting /\ ~holders'[h].exiting

\* C13: a get, acquire, release, timer scheduling or cancellation, or TTL
\* deletion for key k1 leaves the holder, count, entered flag and timer of
\* every other key k2 unchanged.
C13_KeysIndependent ==
    [][\A k1, k2 \in KeySet :
          (k1 # k2 /\ StepOn(k1)) => KeyState(k2)' = KeyState(k2)]_vars

\* Both keys are pooled, one holder in use and the other idle with its timer
\* pending, after an acquisition and a release of different keys.
C13_Witness ==
    \E h1, h2 \in 1 .. Len(holders) :
        /\ holders[h1].key # holders[h2].key
        /\ InPool(instances, h1) /\ InPool(instances, h2)
        /\ holders[h1].count = 1 /\ \E c \in Callers : Using(c, h1)
        /\ holders[h2].count = 0 /\ holders[h2].called_aenter
        /\ timers[holders[h2].key] = "pending"
        /\ timers[holders[h1].key] = "none"

\* C14: pickling a pool in any reachable state and restoring it succeeds and
\* yields a pool with the same factory, key deriver and TTL and with empty
\* instance and timer mappings.
C14_PickleRoundTrip ==
    pickled.done =>
        /\ ~pickled.raised
        /\ pickled.attrs["_getter"] = "getter"
        /\ pickled.attrs["_key"] = "reduce_args"
        /\ pickled.attrs["_ttl"] = "ttl"
        /\ pickled.attrs["_instances"] = <<>>
        /\ pickled.attrs["_timers"] = [k \in KeySet |-> "none"]

\* C15: a key is in the timer map if and only if it is in the instance
\* mapping with a holder of reference count zero whose eviction has not
\* happened (a holder still in the mapping has not been evicted).
C15_TimerIffIdle ==
    \A k \in KeySet :
        (timers[k] # "none") <=>
            (HasKey(instances, k) /\ holders[Lookup(instances, k)].count = 0)

\* The resource of holder h is open: its entry routine returned a value and
\* its exit routine has not completed.
Open(h) ==
    /\ holders[h].managed_value # None
    /\ holders[h].exit_called = 0 \/ holders[h].exiting

\* C16: removal from the instance mapping is atomic with the release of the
\* resource, so at most one resource per key is open at any time.
C16_OneOpenPerKey ==
    \A h1, h2 \in 1 .. Len(holders) :
        (h1 # h2 /\ holders[h1].key = holders[h2].key) => ~(Open(h1) /\ Open(h2))

\* The step calls the factory: a holder is constructed.
FactoryCalled == Len(holders') > Len(holders)

\* C17: get calls the factory exactly when its key is absent from the
\* instance mapping, the holder made is stored under that key, and the
\* mapping never holds two holders for one key; so between two removals of a
\* key the factory is called at most once for it.
C17_FactoryIffAbsent ==
    [][/\ \A c \in Callers :
             GetStep(c) => (FactoryCalled <=> ~HasKey(instances, GetKey(c)))
       /\ FactoryCalled =>
             /\ Len(holders') = Len(holders) + 1
             /\ \E c \in Callers : GetStep(c) /\ ref'[c] = Len(holders')
             /\ ~HasKey(instances, holders'[Len(holders')].key)
             /\ Lookup(instances', holders'[Len(holders')].key) = Len(holders')
       /\ \A i, j \in 1 .. Len(instances') :
             instances'[i].key = instances'[j].key => i = j]_vars

\* The factory has been called a second time for a key, after the first
\* holder of the key was removed from the mapping.
C17_Witness ==
    \E h1, h2 \in 1 .. Len(holders) :
        /\ h1 < h2
        /\ holders[h1].key = holders[h2].key
        /\ ~InPool(instances, h1)
        /\ InPool(instances, h2)
        /\ holders[h1].exit_called = 1 /\ ~holders[h1].exiting

\* C18: a deferred deletion removes and closes only the holder whose
\* release-to-zero scheduled it, never a newer holder stored under the same
\* key; so the holder a deletion task removes has been acquired (a holder
\* never acquired has not been released to zero and scheduled nothing).
C18_DeletionRemovesItsOwnHolder ==
    [][\A h \in HolderIds :
          (/\ Pooled(h)
           /\ ~InPool(instances', h)
           /\ deleteTasks'[holders[h].key] < deleteTasks[holders[h].key]) =>
              holders[h].called_aenter]_vars

\* The callers that hold an acquisition of holder h (entered or entering).
Acquirers(h) == {c \in Callers : pc[c] \in {"entering", "in"} /\ ref[c] = h}

\* C19: a failed acquisition leaves the reference count as it was before the
\* call; so, for callers that release what they acquired, the count of every
\* holder is the number of acquisitions in progress or held.
C19_FailedAcquisitionRestoresCount ==
    \A h \in 1 .. Len(holders) : holders[h].count = Cardinality(Acquirers(h))

\* The resource of holder h was entered, every caller is done with what it
\* acquired, and no further get can be made.
Quiescent(h) ==
    /\ h <= Len(holders)
    /\ holders[h].managed_value # None
    /\ \A c \in Callers : pc[c] = "idle"
    /\ gets = MaxGets

\* C20: the exit routine of every resource that was entered is eventually
\* invoked once all its callers have released it and no further get is made.
C20_NoResourceLeak ==
    \A h \in HolderIds :
        Quiescent(h) ~> (h <= Len(holders) /\ holders[h].exit_called >= 1)

====
